---- MODULE Spec2Model ----
(***************************************************************************)
(* A model of flow_motion_net.py: the coarse-to-fine pipeline of           *)
(* FlowMotionNet.forward (levels 5 down to 1), the layer widths fixed by   *)
(* FlowMotionNet.__init__, MotionNet.forward, FlowMotionNet.get_motion and *)
(* FlowMotionNet.warp.                                                     *)
(*                                                                         *)
(* Learned layers are uninterpreted: what a convolution computes is a      *)
(* nondeterministic value, what it accepts (its input width) and the shape *)
(* it produces are computed as torch computes them.  A tensor of the       *)
(* pipeline is a record of its shape and provenance; a flow field carries  *)
(* in addition the value v of its corner pixel (0,0), which bilinear       *)
(* up-sampling with aligned corners copies through unchanged.              *)
(***************************************************************************)
EXTENDS Integers, Sequences, FiniteSets, TLC

VARIABLES
    md,          \* FlowMotionNet.__init__'s argument, fixed at construction
    pc,          \* position of the current forward call
    calls,       \* number of forward calls started so far
    inp,         \* <<>> or <<[h, w, b]>>: shape of the argument of the current call
    c1, c2,      \* level -> feature map of im1 / im2 (c11..c15, c21..c25)
    decIn,       \* level -> the tensors the level's decoder input concatenates,
                 \*          the level's correlation first
    xw,          \* level -> widths of x fed to conv_0..conv_4 and the heads
    flow,        \* level -> flow field  (flow5..flow1)
    up_flow,     \* level -> up-sampled flow (up_flow5..up_flow2)
    up_feat,     \* level -> up-sampled decoder features (up_feat5..up_feat2)
    motion,      \* level -> predicted_motion3 / 2 / 1
    RsTs,        \* level -> what get_motion returned for that level's motion
    last_layer,  \* <<>> (attribute not set) or <<x>>: self.last_layer
    ret,         \* <<>> or <<flows, motions>>: what forward returned
    err,         \* <<>> or <<[kind, lvl]>>: the exception that ended the call
    wpc,         \* position of the current warp call
    walign,      \* grid_sample's default align_corners in the torch build
    wx,          \* warp's argument x: channel -> row -> column -> value
    wflo,        \* warp's argument flo: row -> column -> <<fx, fy>>
    wres         \* <<>> or <<[sample, mask0, mask, out]>>: warp's tensors

fvars == <<md, pc, calls, inp, c1, c2, decIn, xw, flow, up_flow,
           up_feat, motion, RsTs, last_layer, ret, err>>
wvars == <<wpc, walign, wx, wflo, wres>>
vars == <<fvars, wvars>>

(***************************************************************************)
(* Bounds of the model.                                                    *)
(***************************************************************************)
MaxCalls == 2
MaxBatch == 2
MdSpread == 1

\* md's default (def __init__(self, md=4)) and the displacement the
\* correlation layer is built with (CorrelationLayer(4)).
DefaultMd == 4
CorrMd == 4

MdValues == (DefaultMd - MdSpread)..(DefaultMd + MdSpread)

\* Input resolutions (H, W) a call is made with.
InputSizes == {<<256, 320>>, <<512, 640>>, <<250, 320>>, <<240, 320>>}

\* Corner values a flow head may produce.
FlowSamples == {-3, 2}

Levels == 1..5

(***************************************************************************)
(* Shapes.                                                                 *)
(***************************************************************************)
\* nn.Conv2d's output size along one axis.
ConvOut(n, k, s, p) == ((n + 2 * p - k) \div s) + 1

\* nn.ConvTranspose2d's output size along one axis.
DeconvOut(n, k, s, p) == (n - 1) * s - 2 * p + k

StageUnpadded(n) == ConvOut(ConvOut(ConvOut(n, 3, 2, 0), 3, 1, 0), 3, 1, 0)

\* One extractor stage: conv_norm(.., stride=2) then two stride-1 conv_norm.
Stage(n) == ConvOut(ConvOut(ConvOut(n, 3, 2, 1), 3, 1, 1), 3, 1, 1)

RECURSIVE LevelSize(_, _)
LevelSize(n, L) == IF L = 0 THEN n ELSE Stage(LevelSize(n, L - 1))

\* Output widths of conv1b .. conv5b.
FeatCh == <<16, 32, 64, 96, 128>>

SameHW(a, b) == a.h = b.h /\ a.w = b.w

(***************************************************************************)
(* FlowMotionNet.__init__: the widths the decoders are built with.         *)
(***************************************************************************)
Nd(L, m) ==
    CASE L >= 3 -> (2 * m + 1) * (2 * m + 1)
      [] L = 2 -> (4 * 2 + 1) * (2 * 2 + 1) + 4
      [] L = 1 -> (3 * 2 + 1) * (1 * 2 + 1) + 4

Od(L, m) ==
    CASE L = 5 -> Nd(5, m) + 128
      [] L = 4 -> Nd(4, m) + 96 + 4
      [] L = 3 -> Nd(3, m) + 64 + 4
      [] L = 2 -> Nd(2, m) + 32 + 4
      [] L = 1 -> Nd(1, m) + 16 + 4

Pd(L) ==
    CASE L >= 3 -> <<128, 96, 64, 32, 32>>
      [] L = 2 -> <<96, 64, 64, 32, 32>>
      [] L = 1 -> <<64, 64, 64, 32, 32>>

\* dd = np.cumsum(pd); Dd(L, i) is dd[i] (0-based).
RECURSIVE Dd(_, _)
Dd(L, i) == IF i < 0 THEN 0 ELSE Pd(L)[i + 1] + Dd(L, i - 1)

\* Input width convL_k is built with (k = 0..4).
ConvIn(L, k, m) == IF k = 0 THEN Od(L, m) ELSE Od(L, m) + Dd(L, k - 1)

\* Input width predict_flowL, upfeatL and motion_L's shrink are built with.
HeadIn(L, m) == Od(L, m) + Dd(L, 4)

\* self.last_layer_size
LastLayerSize(m) == Od(1, m) + Dd(1, 4)

\* MotionNet(conv_sizes, lin_sizes, H, W) as constructed for motion_L.
MotionConvSizes(L, m) ==
    CASE L = 3 -> <<HeadIn(3, m), 64, 128, 256>>
      [] L = 2 -> <<HeadIn(2, m), 64, 128, 256, 512>>
      [] L = 1 -> <<HeadIn(1, m), 64, 128, 256, 512, 512>>

MotionLinSizes(L) ==
    CASE L = 3 -> <<256, 256, 256>>
      [] L = 2 -> <<512, 256, 256>>
      [] L = 1 -> <<512, 256, 256>>

MotionHW(L) ==
    CASE L = 3 -> [h |-> 32, w |-> 40]
      [] L = 2 -> [h |-> 64, w |-> 80]
      [] L = 1 -> [h |-> 128, w |-> 160]

\* EpipolarCorrelationLayer(maxd, mind, H, W) as constructed for level L.
EpiMaxd(L) == IF L = 2 THEN -4..4 ELSE -3..3
EpiMind(L) == IF L = 2 THEN -2..2 ELSE -1..1
EpiHW(L) == IF L = 2 THEN [h |-> 64, w |-> 80] ELSE [h |-> 128, w |-> 160]

(***************************************************************************)
(* The correlation operators (module correlation).                         *)
(***************************************************************************)
\* CorrelationLayer(d)(a, b): (2d+1)^2 channels at the inputs' resolution.
CorrelationLayer(d, a, b) ==
    [op |-> "corr", a |-> a, b |-> b, ch |-> (2 * d + 1) * (2 * d + 1),
     h |-> a.h, w |-> a.w]

\* EpipolarCorrelationLayer(maxd, mind, H, W)(a, b, Rs, Ts, flo): one channel
\* per displacement of the maxd x mind window plus 4 auxiliary channels.
EpipolarCorrelationLayer(maxd, mind, a, b, rt, flo) ==
    [op |-> "epi", a |-> a, b |-> b, rt |-> rt, flo |-> flo,
     ch |-> Cardinality(maxd) * Cardinality(mind) + 4, h |-> a.h, w |-> a.w]

(***************************************************************************)
(* Tensors of the pipeline.                                                *)
(***************************************************************************)
\* Broadcasting of one axis in a torch addition; 0 when the sizes clash.
Bcast(n, m) == IF n = m THEN n ELSE IF n = 1 THEN m ELSE IF m = 1 THEN n ELSE 0

\* The accumulated decoder tensor x of level L after its last concatenation.
XT(L, ch, ref) ==
    [lvl |-> L, call |-> calls, ch |-> ch, h |-> ref.h, w |-> ref.w]

\* nn.UpsamplingBilinear2d(scale_factor=s): aligned corners, so the corner
\* pixel keeps its value.
UpsamplingBilinear2d(f, s) ==
    [ch |-> f.ch, h |-> s * f.h, w |-> s * f.w, v |-> f.v]

UpFlowUnscaled(f) ==
    LET u == UpsamplingBilinear2d(f, 2)
    IN [src |-> f, ch |-> u.ch, h |-> u.h, w |-> u.w, v |-> u.v]

\* up_flowL = self.deconvL(flowL) * 2.0
UpFlow(f) ==
    LET u == UpsamplingBilinear2d(f, 2)
    IN [src |-> f, ch |-> u.ch, h |-> u.h, w |-> u.w, v |-> u.v * 2]

\* up_featL = self.upfeatL(x): deconv(.., 2, kernel_size=4, stride=2, padding=1)
UpFeat(x) ==
    [src |-> x, ch |-> 2, h |-> DeconvOut(x.h, 4, 2, 1),
     w |-> DeconvOut(x.w, 4, 2, 1)]

\* The tensor warp(x, flo) returns, as the pipeline sees it: vgrid = grid + flo
\* broadcasts, grid_sample's output has vgrid's resolution.
WarpShape(x, flo) ==
    [op |-> "warp", x |-> x, flo |-> flo, ch |-> x.ch,
     h |-> Bcast(x.h, flo.h), w |-> Bcast(x.w, flo.w)]

\* Widths of x fed to convL_k, convL_k+1, ..: a conv that is fed another
\* width than it was built with rejects it; the last entry (the sixth, when
\* every conv accepted) is the width that reaches the heads.
RECURSIVE Feed(_, _, _, _)
Feed(L, k, width, m) ==
    IF k = 5 \/ width # ConvIn(L, k, m)
    THEN <<width>>
    ELSE <<width>> \o Feed(L, k + 1, Pd(L)[k + 1] + width, m)

DecoderOk(L, fed, m) == Len(fed) = 6 /\ fed[6] = HeadIn(L, m)

(***************************************************************************)
(* MotionNet.forward and FlowMotionNet.get_motion.                         *)
(* A motion vector holds integers in units of 1/Scale.                     *)
(***************************************************************************)
Scale == 2 * 3

Dot(a, b) == a[1] * b[1] + a[2] * b[2] + a[3] * b[3]

\* The integer square root (exact on the squares the model draws).
ISqrt(s) == CHOOSE n \in 0..s : n * n <= s /\ (n + 1) * (n + 1) > s

\* Raw outputs predict[:, :3] and predict[:, 3:] of MotionNet.last_layer.
Predictions ==
    {<<2, 0, 0, 1, 2, 2>>, <<0, 0, 0, 1, 2, 2>>, <<0, 0, 0, 0, 0, 0>>}

\* F.normalize(v): v / max(||v||, eps), in units of 1/Scale.
Normalize(v) ==
    LET n == ISqrt(Dot(v, v))
    IN IF n = 0 THEN <<0, 0, 0>>
       ELSE <<(v[1] * Scale) \div n, (v[2] * Scale) \div n, (v[3] * Scale) \div n>>

\* result[:, :3] = predict[:, :3]; result[:, 3:] = F.normalize(predict[:, 3:])
MotionResult(p) ==
    <<p[1] * Scale, p[2] * Scale, p[3] * Scale>> \o Normalize(SubSeq(p, 4, 6))

\* What stops MotionNet.forward of motion_L on x and flow f, or "": the grid
\* addition, the concatenation with the shrunk features, the shrink's width,
\* the first linear layer's width.
MotionReject(L, x, f, m) ==
    LET gh == Bcast(MotionHW(L).h, f.h)
        gw == Bcast(MotionHW(L).w, f.w)
        cs == MotionConvSizes(L, m)
    IN IF gh = 0 \/ gw = 0 THEN "spatial"
       ELSE IF x.ch # cs[1] THEN "channels"
       ELSE IF gh # x.h \/ gw # x.w THEN "spatial"
       ELSE IF cs[Len(cs)] # MotionLinSizes(L)[1] THEN "channels"
       ELSE ""

\* predicted_motionL = self.motion_L(x, flowL) with raw outputs p (one per item)
MotionVec(L, x, f, p) ==
    [lvl |-> L, feat |-> x, flow |-> f,
     vec |-> [i \in DOMAIN p |-> MotionResult(p[i])]]

\* The components get_motion reads as axis*angle and as translation.
RotPart(v) == SubSeq(v, 1, 3)
TransPart(v) == SubSeq(v, 4, 6)

\* Quaternion(axis=a, radians=|a|) of pyquaternion raises ZeroDivisionError
\* ("Provided rotation axis has no length") on an axis of zero length.
QuaternionRaises(a) == Dot(a, a) = 0

\* q.rotation_matrix, kept symbolic: the rotation about a by |a| radians.
RotationMatrix(a) == [axis |-> a, radiansSq |-> Dot(a, a)]

IsIdentity(R) == R.radiansSq = 0

\* get_motion(predicted_motion): the loop over the batch items.
GetMotionRaises(mv) == \E i \in DOMAIN mv.vec : QuaternionRaises(RotPart(mv.vec[i]))

GetMotion(mv) ==
    [src |-> mv.lvl,
     items |-> [i \in DOMAIN mv.vec |->
                  [R |-> RotationMatrix(RotPart(mv.vec[i])),
                   T |-> TransPart(mv.vec[i])]]]

(***************************************************************************)
(* FlowMotionNet.forward.                                                  *)
(***************************************************************************)
RECURSIVE SumCh(_)
SumCh(parts) == IF parts = <<>> THEN 0 ELSE Head(parts).ch + SumCh(Tail(parts))

CorrCallUnwarped(L) ==
    CASE L >= 3 -> CorrelationLayer(CorrMd, c1[L], c2[L])
      [] L <= 2 -> EpipolarCorrelationLayer(EpiMaxd(L), EpiMind(L), c1[L],
                       c2[L], RsTs[L + 1], up_flow[L + 1])

\* The correlation of level L: corr5 = self.corr(c15, c25); corr4 and corr3
\* on the warped second features; corr2 and corr1 by epi_corr2 / epi_corr1.
CorrCall(L) ==
    CASE L = 5 -> CorrelationLayer(CorrMd, c1[5], c2[5])
      [] L \in {4, 3} ->
           CorrelationLayer(CorrMd, c1[L], WarpShape(c2[L], up_flow[L + 1]))
      [] L <= 2 -> EpipolarCorrelationLayer(EpiMaxd(L), EpiMind(L), c1[L],
                       c2[L], RsTs[L + 1], up_flow[L + 1])

\* The tensors x = torch.cat((..), 1) concatenates at level L.
DecoderParts(L) ==
    IF L = 5 THEN <<CorrCall(5), c1[5]>>
    ELSE <<CorrCall(L), c1[L], up_flow[L + 1], up_feat[L + 1]>>

\* Whether the warp, the correlation and the concatenation of level L find
\* their operands of one resolution.
SpatialOk(L) ==
    LET parts == DecoderParts(L)
    IN /\ \A i \in DOMAIN parts : parts[i].h # 0 /\ parts[i].w # 0
       /\ \A i \in DOMAIN parts : SameHW(parts[i], c1[L])
       /\ parts[1].op = "corr" => SameHW(parts[1].a, parts[1].b)

ReturnMotionsReversed(mo) == <<mo[3], mo[2], mo[1]>>

\* flows = [flow1, .., flow5]; motions = [predicted_motion1, .., 3]
ReturnFlows(fl) == <<fl[1], fl[2], fl[3], fl[4], fl[5]>>
ReturnMotions(mo) == <<mo[1], mo[2], mo[3]>>

Raise(kind, L) ==
    /\ pc' = "error"
    /\ err' = <<[kind |-> kind, lvl |-> L]>>

\* Where forward stands before the block of level L, and after it.
LevelPc(L) == CASE L = 5 -> "L5" [] L = 4 -> "L4" [] L = 3 -> "L3"
                [] L = 2 -> "L2" [] L = 1 -> "L1"
NextPc(L) == IF L = 1 THEN "done" ELSE LevelPc(L - 1)

AssignLastLayerEveryLevel(L, x) == <<x>>

\* self.last_layer = x, at level 1 only.
AssignLastLayer(L, x) == IF L = 1 THEN <<x>> ELSE last_layer

\* The block of forward that computes level L.
RunLevel(L) ==
    IF ~SpatialOk(L)
    THEN /\ Raise("spatial", L)
         /\ UNCHANGED <<decIn, xw, flow, up_flow, up_feat, motion, RsTs,
                        last_layer, ret>>
    ELSE
      LET parts == DecoderParts(L)
          fed == Feed(L, 0, SumCh(parts), md)
      IN
      /\ decIn' = decIn @@ (L :> parts)
      /\ xw' = xw @@ (L :> fed)
      /\ IF ~DecoderOk(L, fed, md)
         THEN /\ Raise("channels", L)
              /\ UNCHANGED <<flow, up_flow, up_feat, motion, RsTs, last_layer, ret>>
         ELSE \E v \in FlowSamples :
           LET x == XT(L, fed[6], c1[L])
               f == [lvl |-> L, call |-> calls, ch |-> 2, h |-> x.h, w |-> x.w,
                     v |-> v, from |-> x]
               fl == flow @@ (L :> f)
           IN
           /\ last_layer' = AssignLastLayer(L, x)
           /\ flow' = fl
           /\ up_flow' = IF L > 1 THEN up_flow @@ (L :> UpFlow(f)) ELSE up_flow
           /\ up_feat' = IF L > 1 THEN up_feat @@ (L :> UpFeat(x)) ELSE up_feat
           /\ IF L > 3
              THEN /\ pc' = NextPc(L)
                   /\ UNCHANGED <<motion, RsTs, ret, err>>
              ELSE IF MotionReject(L, x, f, md) # ""
              THEN /\ Raise(MotionReject(L, x, f, md), L)
                   /\ UNCHANGED <<motion, RsTs, ret>>
              ELSE \E p \in [1..inp[1].b -> Predictions] :
                LET mv == MotionVec(L, x, f, p)
                    mo == motion @@ (L :> mv)
                IN
                /\ motion' = mo
                /\ IF L = 1
                   THEN /\ ret' = <<ReturnFlows(fl), ReturnMotions(mo)>>
                        /\ pc' = NextPc(L)
                        /\ UNCHANGED <<RsTs, err>>
                   ELSE IF GetMotionRaises(mv)
                   THEN /\ Raise("zero_axis", L)
                        /\ UNCHANGED <<RsTs, ret>>
                   ELSE /\ RsTs' = RsTs @@ (L :> GetMotion(mv))
                        /\ pc' = NextPc(L)
                        /\ UNCHANGED <<ret, err>>

\* model(x): forward is entered with a fresh frame.
Call ==
    /\ pc \in {"idle", "done", "error"}
    /\ calls < MaxCalls
    /\ calls' = calls + 1
    /\ pc' = "pyramid"
    /\ inp' = <<>>
    /\ c1' = <<>> /\ c2' = <<>> /\ decIn' = <<>> /\ xw' = <<>>
    /\ flow' = <<>> /\ up_flow' = <<>> /\ up_feat' = <<>>
    /\ motion' = <<>> /\ RsTs' = <<>> /\ ret' = <<>> /\ err' = <<>>
    /\ UNCHANGED <<md, last_layer, wvars>>

Feature(img, L, x) ==
    [op |-> "conv", img |-> img, lvl |-> L, call |-> calls, ch |-> FeatCh[L],
     h |-> LevelSize(x.h, L), w |-> LevelSize(x.w, L)]

\* im1, im2 of the argument x (a batch of b image pairs of h x w pixels) and
\* c11 .. c15, c21 .. c25: the five extractor stages on each.
Pyramid ==
    /\ pc = "pyramid"
    /\ \E hw \in InputSizes, b \in 1..MaxBatch :
         LET x == [h |-> hw[1], w |-> hw[2], b |-> b]
         IN /\ inp' = <<x>>
            /\ c1' = [L \in Levels |-> Feature(1, L, x)]
            /\ c2' = [L \in Levels |-> Feature(2, L, x)]
    /\ pc' = LevelPc(5)
    /\ UNCHANGED <<md, calls, decIn, xw, flow, up_flow, up_feat,
                   motion, RsTs, last_layer, ret, err, wvars>>

Level5 == pc = LevelPc(5) /\ RunLevel(5) /\ UNCHANGED <<md, calls, inp, c1, c2, wvars>>
Level4 == pc = LevelPc(4) /\ RunLevel(4) /\ UNCHANGED <<md, calls, inp, c1, c2, wvars>>
Level3 == pc = LevelPc(3) /\ RunLevel(3) /\ UNCHANGED <<md, calls, inp, c1, c2, wvars>>
Level2 == pc = LevelPc(2) /\ RunLevel(2) /\ UNCHANGED <<md, calls, inp, c1, c2, wvars>>
Level1 == pc = LevelPc(1) /\ RunLevel(1) /\ UNCHANGED <<md, calls, inp, c1, c2, wvars>>

WarpIdle ==
    /\ wpc = "off" /\ walign = TRUE /\ wx = <<>> /\ wflo = <<>> /\ wres = <<>>

Init ==
    /\ md \in MdValues
    /\ pc = "idle" /\ calls = 0 /\ inp = <<>>
    /\ c1 = <<>> /\ c2 = <<>> /\ decIn = <<>> /\ xw = <<>>
    /\ flow = <<>> /\ up_flow = <<>> /\ up_feat = <<>>
    /\ motion = <<>> /\ RsTs = <<>> /\ last_layer = <<>> /\ ret = <<>>
    /\ err = <<>>
    /\ WarpIdle

Next == Call \/ Pyramid \/ Level5 \/ Level4 \/ Level3 \/ Level2 \/ Level1

Spec == Init /\ [][Next]_vars

(***************************************************************************)
(* FlowMotionNet.warp, on one batch item, in exact rational arithmetic.    *)
(* A rational is <<n, d>> in lowest terms with d > 0.                      *)
(***************************************************************************)
MaxC == 2
MaxH == 2
MaxW == 3

Abs(n) == IF n < 0 THEN -n ELSE n
Max(a, b) == IF a > b THEN a ELSE b

RECURSIVE GCD(_, _)
GCD(a, b) == IF b = 0 THEN a ELSE GCD(b, a % b)

Rat(n, d) == LET g == GCD(Abs(n), d) IN <<n \div g, d \div g>>
RInt(n) == <<n, 1>>
RNeg(p) == <<-p[1], p[2]>>
RAdd(p, q) ==
    LET g == GCD(p[2], q[2])
    IN Rat(p[1] * (q[2] \div g) + q[1] * (p[2] \div g), (p[2] \div g) * q[2])
RSub(p, q) == RAdd(p, RNeg(q))
RMul(p, q) ==
    LET g1 == GCD(Abs(p[1]), q[2])
        g2 == GCD(Abs(q[1]), p[2])
    IN Rat((p[1] \div g1) * (q[1] \div g2), (p[2] \div g2) * (q[2] \div g1))
RDivInt(p, k) == RMul(p, <<1, k>>)
RFloor(p) == p[1] \div p[2]

\* p < q, by comparing the continued fractions (no product is formed).
RECURSIVE RLess(_, _)
RLess(p, q) ==
    LET fp == RFloor(p)
        fq == RFloor(q)
        rp == <<p[1] - fp * p[2], p[2]>>
        rq == <<q[1] - fq * q[2], q[2]>>
    IN IF fp # fq THEN fp < fq
       ELSE IF rq[1] = 0 THEN FALSE
       ELSE IF rp[1] = 0 THEN TRUE
       ELSE RLess(<<rq[2], rq[1]>>, <<rp[2], rp[1]>>)

\* mask[mask < 0.9999] = 0
MaskThreshold == <<9999, 10000>>

\* vgrid[:, k] = 2.0 * vgrid[:, k] / max(size - 1, 1) - 1.0
Normalized(coord, size) ==
    RSub(RDivInt(RMul(RInt(2), coord), Max(size - 1, 1)), RInt(1))

\* grid_sample's map from a normalized coordinate back to a pixel coordinate.
Unnormalize(n, size, align) ==
    IF align
    THEN RMul(RDivInt(RAdd(n, RInt(1)), 2), RInt(size - 1))
    ELSE RDivInt(RSub(RMul(RAdd(n, RInt(1)), RInt(size)), RInt(1)), 2)

\* The two neighbours of pixel coordinate p along one axis and their weights.
Taps(p) ==
    LET i0 == RFloor(p)
        t == RSub(p, RInt(i0))
    IN <<[idx |-> i0, wt |-> RSub(RInt(1), t)], [idx |-> i0 + 1, wt |-> t]>>

\* img[i][j] at 0-based row r and column k, zero outside the image.
Padded(img, r, k) ==
    IF r >= 0 /\ r < Len(img) /\ k >= 0 /\ k < Len(img[1])
    THEN img[r + 1][k + 1] ELSE 0

\* nn.functional.grid_sample at one output pixel: bilinear, zero padding.
GridSample(img, py, px) ==
    LET ty == Taps(py)
        tx == Taps(px)
        row(r) == RAdd(RMul(tx[1].wt, RInt(Padded(img, r, tx[1].idx))),
                       RMul(tx[2].wt, RInt(Padded(img, r, tx[2].idx))))
    IN RAdd(RMul(ty[1].wt, row(ty[1].idx)), RMul(ty[2].wt, row(ty[2].idx)))

\* The pixel coordinate (row, column) output pixel (i, j) is sampled at
\* (i, j 1-based), for an image of H rows and W columns and flow flo.
SampleAt(i, j, H, W, flo, align) ==
    LET vx == RAdd(RInt(j - 1), flo[i][j][1])
        vy == RAdd(RInt(i - 1), flo[i][j][2])
    IN <<Unnormalize(Normalized(vy, H), H, align),
         Unnormalize(Normalized(vx, W), W, align)>>

MaskCutInclusive(m) ==
    LET m1 == IF ~RLess(MaskThreshold, m) THEN RInt(0) ELSE m
    IN IF RLess(RInt(0), m1) THEN RInt(1) ELSE m1

\* mask[mask < 0.9999] = 0; mask[mask > 0] = 1
MaskCut(m) ==
    LET m1 == IF RLess(m, MaskThreshold) THEN RInt(0) ELSE m
    IN IF RLess(RInt(0), m1) THEN RInt(1) ELSE m1

\* warp(x, flo): the sampled tensor, the sampled mask, the mask after the two
\* assignments, and output * mask.
WarpResult(x, flo, align) ==
    LET C == Len(x)
        H == Len(x[1])
        W == Len(x[1][1])
        ones == [i \in 1..H |-> [j \in 1..W |-> 1]]
        at == [i \in 1..H |-> [j \in 1..W |-> SampleAt(i, j, H, W, flo, align)]]
        sample == [c \in 1..C |-> [i \in 1..H |-> [j \in 1..W |->
                     GridSample(x[c], at[i][j][1], at[i][j][2])]]]
        onesSampled == [i \in 1..H |-> [j \in 1..W |->
                     GridSample(ones, at[i][j][1], at[i][j][2])]]
        mask0 == [c \in 1..C |-> onesSampled]
        mask == [c \in 1..C |-> [i \in 1..H |-> [j \in 1..W |->
                     MaskCut(mask0[c][i][j])]]]
    IN [sample |-> sample, mask0 |-> mask0, mask |-> mask,
        out |-> [c \in 1..C |-> [i \in 1..H |-> [j \in 1..W |->
                     RMul(sample[c][i][j], mask[c][i][j])]]]]

\* Inputs of warp: the all-ones image, a ramp of distinct values, and the
\* images with one lit pixel in a corner.
Images(C, H, W) ==
    {[c \in 1..C |-> [i \in 1..H |-> [j \in 1..W |->
         IF <<c, i, j>> = lit THEN 1 ELSE 0]]] :
       lit \in {<<1, 1, 1>>, <<C, H, W>>}}
    \cup {[c \in 1..C |-> [i \in 1..H |-> [j \in 1..W |-> 1]]],
          [c \in 1..C |-> [i \in 1..H |-> [j \in 1..W |-> c + 2 * i + 3 * j]]]}

\* Flow components, in pixels.
FlowXs(W) == {<<0, 1>>, <<-1, 10000>>, <<-2, 10000>>, <<1, 2>>, <<1, 1>>,
              <<W + 1, 1>>}
FlowYs(H) == {<<0, 1>>, <<1, 2>>, <<-(H + 1), 1>>}

ZeroFlow == <<<<0, 1>>, <<0, 1>>>>

\* Flow fields: uniform ones, and zero fields with one pixel pushed out.
FlowFields(H, W) ==
    {[i \in 1..H |-> [j \in 1..W |-> <<fx, fy>>]] :
        fx \in FlowXs(W), fy \in FlowYs(H)}
    \cup {[i \in 1..H |-> [j \in 1..W |->
            IF <<i, j>> = p THEN <<<<W + 1, 1>>, <<0, 1>>>> ELSE ZeroFlow]] :
          p \in (1..H) \X (1..W)}

Warp ==
    /\ wpc = "args"
    /\ wres' = <<WarpResult(wx, wflo, walign)>>
    /\ wpc' = "returned"
    /\ UNCHANGED <<walign, wx, wflo, fvars>>

ForwardIdle ==
    /\ md = DefaultMd
    /\ pc = "idle" /\ calls = 0 /\ inp = <<>>
    /\ c1 = <<>> /\ c2 = <<>> /\ decIn = <<>> /\ xw = <<>>
    /\ flow = <<>> /\ up_flow = <<>> /\ up_feat = <<>>
    /\ motion = <<>> /\ RsTs = <<>> /\ last_layer = <<>> /\ ret = <<>>
    /\ err = <<>>

InitWarp ==
    /\ ForwardIdle
    /\ wpc = "args"
    /\ walign \in BOOLEAN
    /\ \E C \in 1..MaxC, H \in 1..MaxH, W \in 1..MaxW :
         /\ wx \in Images(C, H, W)
         /\ wflo \in FlowFields(H, W)
    /\ wres = <<>>

NextWarp == Warp

SpecWarp == InitWarp /\ [][NextWarp]_vars

(***************************************************************************)
(* Properties of warp.                                                     *)
(***************************************************************************)
WarpPixels == {<<c, i, j>> : c \in 1..Len(wx), i \in 1..Len(wx[1]),
                             j \in 1..Len(wx[1][1])}

WarpReturned == wpc = "returned"

FlowIsZero == \A i \in DOMAIN wflo : \A j \in DOMAIN wflo[i] : wflo[i][j] = ZeroFlow

\* The sample location of output pixel (i, j) lies wholly outside the image.
OutOfImage(i, j) ==
    LET H == Len(wx[1])
        W == Len(wx[1][1])
        at == SampleAt(i, j, H, W, wflo, walign)
    IN \/ ~RLess(RInt(-1), at[1]) \/ ~RLess(at[1], RInt(H))
       \/ ~RLess(RInt(-1), at[2]) \/ ~RLess(at[2], RInt(W))

\* C6: warp(x, flo) with flo identically zero returns x unchanged at every
\* pixel, borders included: every pixel is sampled at its own centre and its
\* mask is kept.
C6_ZeroFlowIdentity ==
    (WarpReturned /\ FlowIsZero) =>
        \A p \in WarpPixels :
            /\ SampleAt(p[2], p[3], Len(wx[1]), Len(wx[1][1]), wflo, walign)
                 = <<RInt(p[2] - 1), RInt(p[3] - 1)>>
            /\ wres[1].mask[p[1]][p[2]][p[3]] = RInt(1)
            /\ wres[1].out[p[1]][p[2]][p[3]] = RInt(wx[p[1]][p[2]][p[3]])

\* The same statement for a build whose grid_sample aligns corners.
ZeroFlowIdentityAligned == walign => C6_ZeroFlowIdentity

\* C7 (strict threshold): a pixel is kept only when its sampled mask value
\* exceeds 0.9999.
C7_KeptOnlyAbove ==
    WarpReturned =>
        \A p \in WarpPixels :
            wres[1].mask[p[1]][p[2]][p[3]] = RInt(1)
                => RLess(MaskThreshold, wres[1].mask0[p[1]][p[2]][p[3]])

\* C7 (inclusive threshold): a pixel is kept exactly when its sampled mask value is at
\* least 0.9999 and is zeroed otherwise, in every channel alike; the mask
\* after thresholding holds only 0 and 1; each output pixel is the bilinear
\* sample or zero; a flow that pushes every pixel out of the image returns
\* the all-zero tensor.
C7_HardMask ==
    WarpReturned =>
        /\ \A p \in WarpPixels :
             LET m0 == wres[1].mask0[p[1]][p[2]][p[3]]
                 m == wres[1].mask[p[1]][p[2]][p[3]]
                 o == wres[1].out[p[1]][p[2]][p[3]]
             IN /\ m \in {RInt(0), RInt(1)}
                /\ (m = RInt(1)) <=> ~RLess(m0, MaskThreshold)
                /\ o = IF m = RInt(1) THEN wres[1].sample[p[1]][p[2]][p[3]]
                       ELSE RInt(0)
                /\ \A c \in 1..Len(wx) : wres[1].mask[c][p[2]][p[3]] = m
        /\ (\A p \in WarpPixels : OutOfImage(p[2], p[3]))
             => \A p \in WarpPixels : wres[1].out[p[1]][p[2]][p[3]] = RInt(0)

\* A warp that keeps a pixel sampled at exactly 0.9999, zeroes a pixel whose
\* sample was not zero, in an image of two channels.
C7_Witness ==
    /\ WarpReturned
    /\ Len(wx) = 2
    /\ \E p \in WarpPixels :
         /\ wres[1].mask0[p[1]][p[2]][p[3]] = MaskThreshold
         /\ wres[1].mask[p[1]][p[2]][p[3]] = RInt(1)
    /\ \E p \in WarpPixels :
         /\ wres[1].mask[p[1]][p[2]][p[3]] = RInt(0)
         /\ wres[1].sample[p[1]][p[2]][p[3]] # RInt(0)

(***************************************************************************)
(* Properties of forward.                                                  *)
(***************************************************************************)
\* The correlation level L fed its decoder.
CorrOf(L) == decIn[L][1]

Done == pc = "done"
Failed(kind) == pc = "error" /\ err # <<>> /\ err[1].kind = kind

\* The levels computed so far form a segment L..5.
TopDown(S) == \A L \in S : \A K \in L..5 : K \in S

C1_Dataflow ==
    /\ TopDown(DOMAIN decIn) /\ TopDown(DOMAIN flow)
    /\ DOMAIN up_flow = DOMAIN flow \ {1} /\ DOMAIN up_feat = DOMAIN flow \ {1}
    /\ \A L \in DOMAIN flow : flow[L].lvl = L /\ flow[L].call = calls
    /\ \A L \in DOMAIN up_flow :
         up_flow[L].src = flow[L] /\ up_feat[L].src = flow[L].from
    /\ 5 \in DOMAIN decIn =>
         /\ decIn[5] = <<CorrOf(5), c1[5]>>
         /\ CorrOf(5).op = "corr" /\ CorrOf(5).a = c1[5] /\ CorrOf(5).b = c2[5]
    /\ \A L \in DOMAIN decIn \ {5} :
         /\ L + 1 \in DOMAIN flow
         /\ decIn[L] = <<CorrOf(L), c1[L], up_flow[L + 1], up_feat[L + 1]>>
    /\ \A L \in DOMAIN decIn \cap {4, 3} :
         /\ CorrOf(L).op = "corr" /\ CorrOf(L).a = c1[L]
         /\ CorrOf(L).b.op = "warp" /\ CorrOf(L).b.x = c2[L]
         /\ CorrOf(L).b.flo = up_flow[L + 1]
    /\ \A L \in DOMAIN decIn \cap {2, 1} :
         /\ CorrOf(L).op = "epi" /\ CorrOf(L).a = c1[L] /\ CorrOf(L).b = c2[L]
         /\ CorrOf(L).flo = up_flow[L + 1]
         /\ L + 1 \in DOMAIN RsTs /\ CorrOf(L).rt = RsTs[L + 1]
         /\ RsTs[L + 1].src = L + 1 /\ motion[L + 1].lvl = L + 1
         /\ \A i \in DOMAIN motion[L + 1].vec :
              /\ RsTs[L + 1].items[i].R.axis = RotPart(motion[L + 1].vec[i])
              /\ RsTs[L + 1].items[i].T = TransPart(motion[L + 1].vec[i])

\* A step of a call adds at most one level, the one below the last.
C1_Step ==
    \/ pc' = "pyramid"
    \/ DOMAIN decIn' = DOMAIN decIn
    \/ \E L \in Levels :
         /\ pc = LevelPc(L)
         /\ L \notin DOMAIN decIn
         /\ DOMAIN decIn' = DOMAIN decIn \cup {L}
         /\ DOMAIN decIn = (L + 1)..5

\* C1: forward processes the levels strictly in the order 5, 4, 3, 2, 1; the
\* decoder of level L-1 consumes exactly the flow, up-sampled flow and
\* up-sampled features level L produced; levels 5, 4, 3 use the plain
\* correlation (4 and 3 on the warped second features), levels 2 and 1 the
\* constrained correlation parameterized by get_motion of the motion of the
\* level above and that level's up-sampled flow.
C1_TopDownOrder == []C1_Dataflow /\ [][C1_Step]_vars

\* A second call that completed on a batch of two.
C1_Witness == Done /\ calls = 2 /\ DOMAIN decIn = Levels /\ inp[1].b = 2

\* C2: a completed call returns the 5 flows of levels 1..5 in that order and
\* the 3 motion vectors of levels 1..3 in that order; a motion vector exists
\* only for levels 1, 2, 3 and that of level L was computed from level L's
\* full-width decoder tensor and level L's flow.
C2_ReturnValue ==
    /\ DOMAIN motion \subseteq {1, 2, 3}
    /\ Done =>
         /\ Len(ret) = 2 /\ Len(ret[1]) = 5 /\ Len(ret[2]) = 3
         /\ \A i \in 1..5 :
              ret[1][i] = flow[i] /\ ret[1][i].lvl = i /\ ret[1][i].call = calls
         /\ \A i \in 1..3 :
              /\ ret[2][i] = motion[i] /\ ret[2][i].lvl = i
              /\ ret[2][i].flow = ret[1][i]
              /\ ret[2][i].feat = ret[1][i].from
              /\ ret[2][i].feat.lvl = i
              /\ ret[2][i].feat.ch = SumCh(decIn[i]) + Dd(i, 4)
              /\ DOMAIN ret[2][i].vec = 1..inp[1].b

C2_Witness == Done /\ inp[1].b = 2 /\ flow[1].v # flow[2].v

\* C3: the flow level L-1 consumes (in the warp, in the constrained
\* correlation, in the decoder input) is level L's flow at twice the
\* resolution with its values multiplied by 2, so displacement / resolution
\* is unchanged; the flow of level 1 is not up-sampled.
C3_UpFlow ==
    /\ 1 \notin DOMAIN up_flow
    /\ \A L \in DOMAIN up_flow :
         /\ up_flow[L].src = flow[L]
         /\ up_flow[L].h = 2 * flow[L].h /\ up_flow[L].w = 2 * flow[L].w
         /\ up_flow[L].v = 2 * flow[L].v
         /\ up_flow[L].v * flow[L].w = flow[L].v * up_flow[L].w
         /\ up_flow[L].v * flow[L].h = flow[L].v * up_flow[L].h
    /\ \A L \in DOMAIN decIn \ {5} :
         /\ decIn[L][3] = up_flow[L + 1]
         /\ L \in {4, 3} => CorrOf(L).b.flo = up_flow[L + 1]
         /\ L \in {2, 1} => CorrOf(L).flo = up_flow[L + 1]

C3_Witness == Done /\ flow[5].v = 2 /\ flow[2].v = -3 /\ up_flow[2].v = -6

\* C4: the rotation sub-vector (the components get_motion decodes as the
\* rotation) of every motion vector MotionNet.forward returns has L2 norm 1.
C4_UnitRotation ==
    \A L \in DOMAIN motion : \A i \in DOMAIN motion[L].vec :
        Dot(RotPart(motion[L].vec[i]), RotPart(motion[L].vec[i])) = Scale * Scale

\* What the code normalizes is the other triple, when it is not zero.
TailUnitOrZero ==
    \A L \in DOMAIN motion : \A i \in DOMAIN motion[L].vec :
        Dot(TransPart(motion[L].vec[i]), TransPart(motion[L].vec[i]))
            \in {0, Scale * Scale}

\* C5: get_motion never fails on a motion vector whose rotation triple is
\* zero: such an item gets the identity rotation and its translation copied,
\* the other items are converted normally, and forward is not aborted.
C5_ZeroRotationIdentity ==
    /\ ~Failed("zero_axis")
    /\ \A L \in DOMAIN motion \cap {3, 2} :
         /\ L \in DOMAIN RsTs
         /\ \A i \in DOMAIN motion[L].vec :
              /\ RsTs[L].items[i].T = TransPart(motion[L].vec[i])
              /\ Dot(RotPart(motion[L].vec[i]), RotPart(motion[L].vec[i])) = 0
                   => IsIdentity(RsTs[L].items[i].R)

\* C8 (input 512 x 640): at the input resolution 512 x 640 the features of levels 1,
\* 2, 3 have the resolutions the motion heads and the constrained
\* correlations are built with, and no shape mismatch stops the call.
C8_Native512x640 ==
    (inp # <<>> /\ inp[1].h = 512 /\ inp[1].w = 640 /\ c1 # <<>>) =>
        /\ \A L \in 1..3 : SameHW(c1[L], MotionHW(L))
        /\ \A L \in 1..2 : SameHW(c1[L], EpiHW(L))
        /\ ~Failed("spatial")

\* C8 (input 256 x 320): at the input resolution 256 x 320 each level halves the
\* resolution of the one before, levels 1, 2, 3 have the resolutions 128x160,
\* 64x80, 32x40 the motion heads and the constrained correlations are built
\* with, each flow has its motion head's grid's resolution, and no mismatch
\* of spatial shape stops the call.
C8_Resolution256x320 ==
    (inp # <<>> /\ inp[1].h = 256 /\ inp[1].w = 320 /\ c1 # <<>>) =>
        /\ 2 * c1[1].h = inp[1].h /\ 2 * c1[1].w = inp[1].w
        /\ \A L \in 2..5 : 2 * c1[L].h = c1[L - 1].h /\ 2 * c1[L].w = c1[L - 1].w
        /\ c1[1].h = 128 /\ c1[1].w = 160
        /\ c1[2].h = 64 /\ c1[2].w = 80
        /\ c1[3].h = 32 /\ c1[3].w = 40
        /\ \A L \in 1..3 : SameHW(c1[L], MotionHW(L))
        /\ \A L \in 1..2 : SameHW(c1[L], EpiHW(L))
        /\ \A L \in DOMAIN flow \cap 1..3 : SameHW(flow[L], MotionHW(L))
        /\ ~Failed("spatial")

C8_Witness == Done /\ inp[1].h = 256 /\ inp[1].w = 320 /\ DOMAIN motion = {1, 2, 3}

\* C9: for every md and at every level, each decoder convolution, the flow
\* head, the feature up-sampler and the motion head are fed the width they
\* were built with; the correlation has the (2*md+1)^2 channels the decoders
\* of levels 5, 4, 3 are sized for; each motion head's first linear width is
\* its last convolution width.
C9_WidthsMatch ==
    /\ ~Failed("channels")
    /\ \A L \in DOMAIN xw :
         /\ Len(xw[L]) = 6
         /\ \A k \in 0..4 : xw[L][k + 1] = ConvIn(L, k, md)
         /\ xw[L][6] = HeadIn(L, md)
         /\ \A k \in 1..5 : xw[L][k + 1] > xw[L][k]
         /\ L >= 3 => CorrOf(L).ch = (2 * md + 1) * (2 * md + 1)
    /\ \A L \in 1..3 :
         MotionConvSizes(L, md)[Len(MotionConvSizes(L, md))] = MotionLinSizes(L)[1]

\* The same statement for the default md alone.
WidthsMatchDefault == md = DefaultMd => C9_WidthsMatch

C10_State ==
    /\ last_layer # <<>> =>
         /\ last_layer[1].lvl = 1
         /\ last_layer[1].call <= calls
         /\ last_layer[1].ch = LastLayerSize(md)
         /\ last_layer[1].call = calls =>
              1 \in DOMAIN xw /\ Len(xw[1]) = 6 /\ last_layer[1].ch = xw[1][6]
    /\ Done =>
         /\ last_layer # <<>> /\ last_layer[1].call = calls
         /\ last_layer[1] = flow[1].from /\ last_layer[1] = motion[1].feat
    /\ (pc = "error" /\ err[1].lvl > 1) =>
         (last_layer = <<>> \/ last_layer[1].call < calls)

C10_Step ==
    /\ md' = md
    /\ last_layer' # last_layer => (pc = "L1" /\ 1 \in DOMAIN xw')
    /\ (pc' = "error" /\ err'[1].lvl > 1) => last_layer' = last_layer

\* C10: self.last_layer is the level-1 accumulated decoder tensor of the most
\* recent completed call (the tensor given to predict_flow1 and motion_1, of
\* width last_layer_size); forward assigns nothing else on the model, assigns
\* it only once level 1's five decoder stages have run, never retains the
\* decoder tensor of levels 5 to 2, and a call that fails before level 1
\* leaves the value of the previous call.
C10_LastLayer == []C10_State /\ [][C10_Step]_vars

\* A second call failed above level 1 after a first call had completed.
C10_Witness ==
    /\ pc = "error" /\ err[1].lvl > 1 /\ calls = 2
    /\ last_layer # <<>> /\ last_layer[1].call = 1

====
